---- MODULE Spec2Model ----
(***************************************************************************)
(* The MovieLens preprocessing pipeline of convert.py (main): filter out   *)
(* users with fewer than MIN_RATINGS rows, remap raw ids to dense indices, *)
(* sort by timestamp, build per-user histories, hold out each user's last  *)
(* item, sample negatives from the seeded global generator, write the      *)
(* three output files.                                                     *)
(***************************************************************************)
EXTENDS Integers, Sequences, FiniteSets, TLC

VARIABLES
    ratings,        \* the rows of ratings.csv as implicit_load returns them
    seed,           \* args.seed
    negatives,      \* args.negatives
    tie_order,      \* how this build's quicksort leaves rows of equal timestamp
    pc,             \* position of main()
    error,          \* the exception that ended main(), "" if none
    rng,            \* state of the global np.random generator
    df,
    original_users,
    original_items,
    user_map,
    item_map,
    all_ratings,
    user_to_items,
    all_items,
    test_ratings,
    test_negs,
    user,           \* the loop variable of the split loop
    train_file,
    test_file,
    neg_file,
    run,            \* how many times the pipeline has been started
    prev_run        \* what the previous run left behind

vars == <<ratings, seed, negatives, tie_order, pc, error, rng, df,
          original_users, original_items, user_map, item_map, all_ratings,
          user_to_items, all_items, test_ratings, test_negs, user,
          train_file, test_file, neg_file, run, prev_run>>

(***************************************************************************)
(* Program constants and bounds of the model                               *)
(***************************************************************************)
MIN_RATINGS == 20

\* rows a user may have beyond MIN_RATINGS
MaxExtra == 1
\* args.negatives ranges over 1 .. MaxNegatives
MaxNegatives == 2
\* args.seed ranges over 0 .. MaxSeed
MaxSeed == 7
\* the pipeline is started at most MaxRuns times on the same input
MaxRuns == 2

\* the generator's state space and step: a full-period congruential
\* generator stands for the Mersenne twister behind np.random
RngMod == 32
RngMul == 5
RngInc == 3

(***************************************************************************)
(* Sequence helpers                                                        *)
(***************************************************************************)
Range(s) == {s[k] : k \in DOMAIN s}

Reverse(s) == [k \in 1..Len(s) |-> s[Len(s) + 1 - k]]

SetMax(S) == CHOOSE m \in S : \A x \in S : x <= m

SetMin(S) == CHOOSE m \in S : \A x \in S : m <= x

\* sorted(list(S)): the elements of a set of integers in ascending order
sorted(S) ==
    [k \in 1..Cardinality(S) |->
        CHOOSE x \in S : Cardinality({y \in S : y < x}) = k - 1]

(***************************************************************************)
(* The input tables.  A user's rows are described by a profile: n rows,    *)
(* row k rating item number k + shift, with an optional repeated item and  *)
(* a timestamp pattern.                                                    *)
(***************************************************************************)
RawItemTop == 90

NoRows == [n |-> 0, shift |-> 0, dup |-> "none", ts |-> "asc"]

\* the user whose rows exercise repeated items and timestamp patterns
MainProfiles ==
    {NoRows, [n |-> MIN_RATINGS - 1, shift |-> 0, dup |-> "none", ts |-> "asc"]}
    \cup [n : MIN_RATINGS .. MIN_RATINGS + MaxExtra, shift : {0},
          dup : {"none", "last", "early"}, ts : {"asc", "desc", "tie"}]

\* a user just below or at the threshold, rating some items nobody else rates
EdgeProfiles ==
    {NoRows} \cup [n : {MIN_RATINGS - 1, MIN_RATINGS}, shift : {MaxExtra + 3},
                   dup : {"none"}, ts : {"asc"}]

\* a further user, absent or with exactly MIN_RATINGS rows
OtherProfiles ==
    {NoRows} \cup [n : {MIN_RATINGS}, shift : {0, 1}, dup : {"none"}, ts : {"desc"}]

ItemNo(p, k) ==
    CASE p.dup = "last" /\ k = p.n -> 1 + p.shift
      [] p.dup = "early" /\ k = 2 -> 3 + p.shift
      [] OTHER -> k + p.shift

Stamp(p, k) ==
    CASE p.ts = "asc" -> k
      [] p.ts = "desc" -> p.n + 1 - k
      [] OTHER -> IF k = p.n THEN p.n - 1 ELSE k

Rows(uid, p) ==
    [k \in 1..p.n |-> [user_id |-> uid, item_id |-> RawItemTop - ItemNo(p, k),
                       timestamp |-> Stamp(p, k)]]

Tables ==
    {Rows(9, e) \o Rows(5, m) \o Rows(2, o) :
        e \in EdgeProfiles, m \in MainProfiles, o \in OtherProfiles}

(***************************************************************************)
(* np.random: seed, and choice(a, size) with replacement                   *)
(***************************************************************************)
NextRng(g) == (RngMul * g + RngInc) % RngMod

\* mutant: the generator is seeded from something that differs between runs
RandomSeedPerRun(s) == (s + run) % RngMod

\* np.random.seed(args.seed)
RandomSeed(s) == s % RngMod

\* mutant: the drawn positions are returned instead of the elements there
RECURSIVE RandomChoicePositions(_, _, _)
RandomChoicePositions(a, size, g) ==
    IF size = 0 THEN [samples |-> <<>>, state |-> g]
    ELSE LET g1 == NextRng(g)
             rest == RandomChoicePositions(a, size - 1, g1)
         IN [samples |-> <<g1 % Len(a)>> \o rest.samples, state |-> rest.state]

\* np.random.choice(a, size): size draws with replacement, each an index
\* into a taken from the generator; returns the samples and the new state
RECURSIVE RandomChoice(_, _, _)
RandomChoice(a, size, g) ==
    IF size = 0 THEN [samples |-> <<>>, state |-> g]
    ELSE LET g1 == NextRng(g)
             rest == RandomChoice(a, size - 1, g1)
         IN [samples |-> <<a[(g1 % Len(a)) + 1]>> \o rest.samples,
             state |-> rest.state]

(***************************************************************************)
(* pandas operations used by main()                                        *)
(***************************************************************************)
GroupSize(table, uid) == Cardinality({k \in DOMAIN table : table[k].user_id = uid})

\* mutant: the threshold is off by one
GroupFilterOffByOne(table) ==
    SelectSeq(table, LAMBDA r : GroupSize(table, r.user_id) >= MIN_RATINGS - 1)

\* df.groupby(USER_COLUMN).filter(lambda x: len(x) >= MIN_RATINGS)
GroupFilter(table) ==
    SelectSeq(table, LAMBDA r : GroupSize(table, r.user_id) >= MIN_RATINGS)

\* Series.unique(): the distinct values in order of first appearance
Unique(s) ==
    LET first == {k \in DOMAIN s : \A j \in 1..(k - 1) : s[j] # s[k]}
    IN [i \in 1..Cardinality(first) |->
          s[CHOOSE k \in first : Cardinality({j \in first : j < k}) = i - 1]]

Column(table, name) == [k \in DOMAIN table |-> table[k][name]]

\* mutant: the enumeration starts at 1
EnumerateMapFromOne(values) ==
    [x \in Range(values) |-> SetMax({k \in DOMAIN values : values[k] = x})]

\* {x: index for index, x in enumerate(values)}: a later index overwrites
EnumerateMap(values) ==
    [x \in Range(values) |-> SetMax({k \in DOMAIN values : values[k] = x}) - 1]

\* mutant: the maximum of an empty series is -1
SeriesMaxEmptyMinusOne(s) ==
    IF Len(s) = 0 THEN [nan |-> FALSE, val |-> -1]
    ELSE [nan |-> FALSE, val |-> SetMax(Range(s))]

\* Series.max(): NaN on an empty series
SeriesMax(s) ==
    IF Len(s) = 0 THEN [nan |-> TRUE, val |-> 0]
    ELSE [nan |-> FALSE, val |-> SetMax(Range(s))]

\* the two assertions after remapping
DenseAssert(column, originals) ==
    LET m == SeriesMax(column) IN ~m.nan /\ m.val = Len(originals) - 1

\* the rows with timestamp t, in the order this build's sort leaves them
TieGroup(table, t) ==
    LET g == SelectSeq(table, LAMBDA r : r.timestamp = t)
    IN IF tie_order = "keep" THEN g ELSE Reverse(g)

RECURSIVE SortFrom(_, _, _)
SortFrom(table, t, last) ==
    IF t > last THEN <<>>
    ELSE TieGroup(table, t) \o SortFrom(table, t + 1, last)

\* df.sort_values(by='timestamp'): ascending, default (unstable) quicksort
SortValues(table) ==
    IF Len(table) = 0 THEN table
    ELSE LET stamps == Range(Column(table, "timestamp"))
         IN SortFrom(table, SetMin(stamps), SetMax(stamps))

\* the loop over df.itertuples() appending to user_to_items[user]
Histories(table) ==
    [u \in Range(Column(table, "user_id")) |->
        Column(SelectSeq(table, LAMBDA r : r.user_id = u), "item_id")]

\* user_to_items is a defaultdict(list)
History(u) == IF u \in DOMAIN user_to_items THEN user_to_items[u] ELSE <<>>

\* mutant: the last element is read but not removed
PopKeepsLast(h) == [item |-> h[Len(h)], rest |-> h]

\* h.pop() on a non-empty list: the last element, and what is left
Pop(h) == [item |-> h[Len(h)], rest |-> SubSeq(h, 1, Len(h) - 1)]

\* mutant: the user's history is not subtracted
AllNegsWholeCatalog(items, history) == sorted(items)

\* sorted(list(all_items - set(user_to_items[user])))
AllNegs(items, history) == sorted(items \ Range(history))

(***************************************************************************)
(* The pipeline                                                            *)
(***************************************************************************)
NoTrain == [written |-> FALSE, rows |-> {}]
NoFile == [written |-> FALSE, rows |-> <<>>]
NoRun == [pc |-> "none", error |-> "", train |-> NoTrain, test |-> NoFile,
          negs |-> NoFile]

Blank ==
    /\ pc = "start"
    /\ error = ""
    /\ rng = 0
    /\ df = <<>>
    /\ original_users = <<>>
    /\ original_items = <<>>
    /\ user_map = <<>>
    /\ item_map = <<>>
    /\ all_ratings = {}
    /\ user_to_items = <<>>
    /\ all_items = {}
    /\ test_ratings = <<>>
    /\ test_negs = <<>>
    /\ user = 0
    /\ train_file = NoTrain
    /\ test_file = NoFile
    /\ neg_file = NoFile

Init ==
    /\ ratings \in Tables
    /\ seed \in 0..MaxSeed
    /\ negatives \in 1..MaxNegatives
    /\ tie_order \in {"keep", "reverse"}
    /\ run = 1
    /\ prev_run = NoRun
    /\ Blank

inputs == <<ratings, seed, negatives, tie_order>>
files == <<train_file, test_file, neg_file>>

\* lines 49-57: seed the generator, load the table
Load ==
    /\ pc = "start"
    /\ rng' = RandomSeed(seed)
    /\ df' = ratings
    /\ pc' = "loaded"
    /\ UNCHANGED <<inputs, error, original_users, original_items, user_map,
                   item_map, all_ratings, user_to_items, all_items,
                   test_ratings, test_negs, user, files, run, prev_run>>

\* lines 59-62
Filter ==
    /\ pc = "loaded"
    /\ df' = GroupFilter(df)
    /\ pc' = "filtered"
    /\ UNCHANGED <<inputs, error, rng, original_users, original_items,
                   user_map, item_map, all_ratings, user_to_items, all_items,
                   test_ratings, test_negs, user, files, run, prev_run>>

\* lines 64-75
Remap ==
    /\ pc = "filtered"
    /\ original_users' = Unique(Column(df, "user_id"))
    /\ original_items' = Unique(Column(df, "item_id"))
    /\ user_map' = EnumerateMap(original_users')
    /\ item_map' = EnumerateMap(original_items')
    /\ df' = [k \in DOMAIN df |->
                [user_id |-> user_map'[df[k].user_id],
                 item_id |-> item_map'[df[k].item_id],
                 timestamp |-> df[k].timestamp]]
    /\ IF /\ DenseAssert(Column(df', "user_id"), original_users')
          /\ DenseAssert(Column(df', "item_id"), original_items')
       THEN pc' = "remapped" /\ error' = error
       ELSE pc' = "failed" /\ error' = "AssertionError"
    /\ UNCHANGED <<inputs, rng, all_ratings, user_to_items, all_items,
                   test_ratings, test_negs, user, files, run, prev_run>>

\* lines 77-87
Build ==
    /\ pc = "remapped"
    /\ df' = SortValues(df)
    /\ all_ratings' = {<<df'[k].user_id, df'[k].item_id>> : k \in DOMAIN df'}
    /\ user_to_items' = Histories(df')
    /\ test_ratings' = <<>>
    /\ test_negs' = <<>>
    /\ all_items' = 0 .. (Len(original_items) - 1)
    /\ user' = 0
    /\ pc' = "split"
    /\ UNCHANGED <<inputs, error, rng, original_users, original_items,
                   user_map, item_map, files, run, prev_run>>

\* lines 102-110: one iteration of the loop over range(len(original_users))
SplitUser ==
    /\ pc = "split"
    /\ user < Len(original_users)
    /\ LET h == History(user)
       IN IF Len(h) = 0
          THEN \* list.pop() on an empty list
               /\ pc' = "failed" /\ error' = "IndexError"
               /\ UNCHANGED <<rng, all_ratings, user_to_items, test_ratings,
                              test_negs, user>>
          ELSE LET test_item == Pop(h).item
                   rest == Pop(h).rest
                   popped == [u \in DOMAIN user_to_items \cup {user} |->
                                IF u = user THEN rest ELSE user_to_items[u]]
                   all_negs == AllNegs(all_items, rest)
               IN /\ user_to_items' = popped
                  /\ IF <<user, test_item>> \notin all_ratings
                     THEN \* set.remove() of a missing element
                          /\ pc' = "failed" /\ error' = "KeyError"
                          /\ UNCHANGED <<rng, all_ratings, test_ratings,
                                         test_negs, user>>
                     ELSE /\ all_ratings' = all_ratings \ {<<user, test_item>>}
                          /\ test_ratings' = Append(test_ratings, <<user, test_item>>)
                          /\ IF Len(all_negs) = 0 /\ negatives # 0
                             THEN \* np.random.choice on an empty sequence
                                  /\ pc' = "failed" /\ error' = "ValueError"
                                  /\ UNCHANGED <<rng, test_negs, user>>
                             ELSE LET c == RandomChoice(all_negs, negatives, rng)
                                  IN /\ test_negs' = Append(test_negs, c.samples)
                                     /\ rng' = c.state
                                     /\ user' = user + 1
                                     /\ UNCHANGED <<pc, error>>
    /\ UNCHANGED <<inputs, df, original_users, original_items, user_map,
                   item_map, all_items, files, run, prev_run>>

\* lines 112-127
Save ==
    /\ pc = "split"
    /\ user = Len(original_users)
    /\ train_file' = [written |-> TRUE,
                      rows |-> {<<p[1], p[2], 1>> : p \in all_ratings}]
    /\ test_file' = [written |-> TRUE,
                     rows |-> [k \in DOMAIN test_ratings |->
                                 <<test_ratings[k][1], test_ratings[k][2], 1>>]]
    /\ neg_file' = [written |-> TRUE, rows |-> test_negs]
    /\ pc' = "done"
    /\ UNCHANGED <<inputs, error, rng, df, original_users, original_items,
                   user_map, item_map, all_ratings, user_to_items, all_items,
                   test_ratings, test_negs, user, run, prev_run>>

\* the pipeline is started again on the same input with the same arguments,
\* in an output directory cleared of the previous run's files
Rerun ==
    /\ pc \in {"done", "failed"}
    /\ run < MaxRuns
    /\ run' = run + 1
    /\ prev_run' = [pc |-> pc, error |-> error, train |-> train_file,
                    test |-> test_file, negs |-> neg_file]
    /\ pc' = "start"
    /\ error' = ""
    /\ rng' = 0
    /\ df' = <<>>
    /\ original_users' = <<>>
    /\ original_items' = <<>>
    /\ user_map' = <<>>
    /\ item_map' = <<>>
    /\ all_ratings' = {}
    /\ user_to_items' = <<>>
    /\ all_items' = {}
    /\ test_ratings' = <<>>
    /\ test_negs' = <<>>
    /\ user' = 0
    /\ train_file' = NoTrain
    /\ test_file' = NoFile
    /\ neg_file' = NoFile
    /\ UNCHANGED inputs

Next == Load \/ Filter \/ Remap \/ Build \/ SplitUser \/ Save \/ Rerun

Spec == Init /\ [][Next]_vars

(***************************************************************************)
(* What the properties are stated against: the input table, and the        *)
(* per-user results of the split loop                                      *)
(***************************************************************************)
RawUsers == {ratings[k].user_id : k \in DOMAIN ratings}

RowsOfUser(uid) == {k \in DOMAIN ratings : ratings[k].user_id = uid}

RetainedUsers == {uid \in RawUsers : Cardinality(RowsOfUser(uid)) >= MIN_RATINGS}

SparseUsers == RawUsers \ RetainedUsers

RetainedRows == UNION {RowsOfUser(uid) : uid \in RetainedUsers}

RetainedItems == {ratings[k].item_id : k \in RetainedRows}

\* no two rows of the input hold the same (user, item) pair
NoRepeatedRating ==
    Cardinality({<<ratings[k].user_id, ratings[k].item_id>> : k \in DOMAIN ratings})
        = Len(ratings)

AfterRemap == pc \in {"remapped", "split", "done", "failed"}

\* the users whose iteration of the split loop has popped the test item
Processed == 0 .. (Len(test_ratings) - 1)

\* the users whose negatives have been drawn
Sampled == 0 .. (Len(test_negs) - 1)

TestItem(u) == test_ratings[u + 1][2]

Negs(u) == Range(test_negs[u + 1])

\* every item index the user has a row for in the filtered, remapped table
Interacted(u) == {df[k].item_id : k \in {j \in DOMAIN df : df[j].user_id = u}}

\* a user's input rows in chronological order, ties in original row order
RECURSIVE StableFrom(_, _, _)
StableFrom(rows, t, last) ==
    IF t > last THEN <<>>
    ELSE SelectSeq(rows, LAMBDA r : r.timestamp = t) \o StableFrom(rows, t + 1, last)

Chronological(uid) ==
    LET rows == SelectSeq(ratings, LAMBDA r : r.user_id = uid)
        stamps == {rows[k].timestamp : k \in DOMAIN rows}
    IN StableFrom(rows, SetMin(stamps), SetMax(stamps))

(***************************************************************************)
(* The claims                                                              *)
(***************************************************************************)

C2_TestItemNotInHistory ==
    \A u \in Processed : TestItem(u) \notin Range(History(u))

\* C3 as stated: no sampled negative of a user is an item the user has
\* interacted with, held-out item included.
C3_NegativesNeverInteracted ==
    \A u \in Sampled : Negs(u) \cap Interacted(u) = {}

\* C3 as amended: a sampled negative that the user has interacted with can
\* only be the user's held-out item, and then the held-out item does not
\* occur again in the remaining history.
C3_NegativesOnlyHeldOut ==
    \A u \in Sampled : \A neg \in Negs(u) :
        neg \in Interacted(u) =>
            neg = TestItem(u) /\ TestItem(u) \notin Range(History(u))

\* a user's held-out item has been drawn as one of that user's negatives
C3_Witness ==
    \E u \in Sampled : TestItem(u) \in Negs(u) /\ Len(History(u)) >= MIN_RATINGS - 1

\* C4: every user gets args.negatives negatives, each an item index of the
\* catalog that is not in the user's history after the pop.
C4_NegativesFromPool ==
    \A u \in Sampled :
        /\ Len(test_negs[u + 1]) = negatives
        /\ Negs(u) \subseteq (0 .. (Len(original_items) - 1)) \ Range(History(u))

\* negatives other than the held-out item drawn from a catalog larger than
\* the user's history
C4_Witness ==
    \E u \in Sampled :
        /\ Negs(u) # {TestItem(u)}
        /\ Cardinality(all_items \ Range(History(u))) > 2
        /\ Cardinality(Negs(u)) = 2

\* C5: the held-out item is the item of the user's last row in timestamp
\* order, ties in original row order, and the other rows are the history in
\* that order.  Fails on the code where the sort reorders equal timestamps.
C5_LastInteractionHeldOut ==
    \A u \in Processed :
        LET rows == Chronological(original_users[u + 1])
        IN /\ TestItem(u) = item_map[rows[Len(rows)].item_id]
           /\ History(u) = [k \in 1 .. (Len(rows) - 1) |-> item_map[rows[k].item_id]]

\* C6: when a user survives the filter the maps are bijections from the
\* surviving raw ids onto 0 .. n-1, inverted by original_users and
\* original_items, and the dense-index assertions pass.
C6_DenseBijection ==
    (AfterRemap /\ RetainedUsers # {}) =>
        /\ error # "AssertionError"
        /\ DOMAIN user_map = RetainedUsers
        /\ {user_map[x] : x \in RetainedUsers} = 0 .. (Cardinality(RetainedUsers) - 1)
        /\ Len(original_users) = Cardinality(RetainedUsers)
        /\ \A x \in RetainedUsers : original_users[user_map[x] + 1] = x
        /\ DOMAIN item_map = RetainedItems
        /\ {item_map[x] : x \in RetainedItems} = 0 .. (Cardinality(RetainedItems) - 1)
        /\ Len(original_items) = Cardinality(RetainedItems)
        /\ \A x \in RetainedItems : original_items[item_map[x] + 1] = x

\* two users remapped, the larger raw id to the smaller index, and an item
\* of a filtered user left out of the item map
C6_Witness ==
    /\ pc = "remapped"
    /\ \E a, b \in RetainedUsers : a < b /\ user_map[a] > user_map[b]
    /\ \E k \in DOMAIN ratings : ratings[k].item_id \notin RetainedItems

\* C7: a user with fewer than MIN_RATINGS rows gets no dense index and no
\* row of any output; every user the split loop pops has at least
\* MIN_RATINGS items, so the pop never finds an empty history.
C7_SparseUsersExcluded ==
    /\ (DOMAIN user_map \cup Range(original_users)) \cap SparseUsers = {}
    /\ {original_users[row[1] + 1] : row \in train_file.rows} \subseteq RetainedUsers
    /\ {original_users[test_file.rows[k][1] + 1] : k \in DOMAIN test_file.rows}
          \subseteq RetainedUsers
    /\ {original_users[k] : k \in DOMAIN neg_file.rows} \subseteq RetainedUsers
    /\ error # "IndexError"
    /\ (pc = "split" /\ user < Len(original_users)) =>
          Len(History(user)) >= MIN_RATINGS

\* the files written from a table holding a user one row short of
\* MIN_RATINGS and a retained user
C7_Witness ==
    /\ pc = "done"
    /\ \E uid \in SparseUsers : Cardinality(RowsOfUser(uid)) = MIN_RATINGS - 1
    /\ \E uid \in RetainedUsers : Cardinality(RowsOfUser(uid)) = MIN_RATINGS
    /\ Len(neg_file.rows) > 0

C9_EmptyFilteredFails ==
    RetainedUsers = {} =>
        /\ pc \notin {"remapped", "split", "done"}
        /\ pc = "failed" => error = "AssertionError"
        /\ ~train_file.written /\ ~test_file.written /\ ~neg_file.written

\* the assertion failure on a table whose users are all below MIN_RATINGS
C9_Witness ==
    /\ pc = "failed"
    /\ error = "AssertionError"
    /\ Len(ratings) > 0
    /\ RetainedUsers = {}

\* C10: without repeated (user, item) rows the held-out item is never left
\* in the history, so it is in the candidate pool and the draw never meets
\* an empty pool; an empty pool means the held-out item occurs again in the
\* history and the history covers the catalog.
C10_PoolNonEmptyWithoutRepeats ==
    /\ NoRepeatedRating =>
          /\ error # "ValueError"
          /\ \A u \in Processed : TestItem(u) \in all_items \ Range(History(u))
    /\ error = "ValueError" =>
          /\ TestItem(user) \in Range(History(user))
          /\ Range(History(user)) = all_items

\* negatives drawn for a user who has rated every item of the catalog once
C10_Witness ==
    /\ NoRepeatedRating
    /\ \E u \in Sampled :
          /\ Range(History(u)) \cup {TestItem(u)} = all_items
          /\ Negs(u) = {TestItem(u)}

====
